---------------------------- MODULE Spec2Model ----------------------------
(***************************************************************************)
(* Focus and per-stream control state of the Room component               *)
(* (ui/src/Room.tsx).                                                      *)
(*                                                                         *)
(* The component is a React function component.  Its state is the hooks'  *)
(* state (selectedStream, isMuted, volumes) and the props it is rendered   *)
(* with (state.hostStream, state.clientStreams, state.users).  An event    *)
(* handler runs against the values of the last committed render; the       *)
(* effects whose dependencies changed run after the commit, and a state    *)
(* change made by an effect causes one more render and effect pass.  The   *)
(* model keeps the set of effects that still have to run in `pending`;     *)
(* the component has settled when it is empty.  React flushes the pending  *)
(* passive effects before it handles the next event, so events are taken   *)
(* in settled states only.                                                 *)
(***************************************************************************)
EXTENDS Integers, Sequences, FiniteSets

VARIABLES
    hostStream,      \* state.hostStream is set (the local user is presenting)
    clientStreams,   \* state.clientStreams, the ids of the streams in order
    users,           \* state.users, the records [id, you]
    selectedStream,  \* useState: undefined, a stream id or the HostStream symbol
    isMuted,         \* useState: object, key -> boolean
    volumes,         \* useState: object, key -> number
    pending,         \* the effects that have to run after the last render
    controlOps,      \* number of control-store writes by user handlers so far
    last,            \* the last event: its name, the focus before it, ...
    showControl,     \* useState: the output of useShowOnMouseMovement
    open,            \* useState: the settings dialog is open
    hoverControl,    \* useState: the pointer is over a control surface
    timeoutHandle,   \* timeoutHandle.current: 0 or the handle of a timeout
    timers,          \* the handles of the timeouts the window has pending
    nextHandle,      \* the handle the next window.setTimeout returns
    listening,       \* the mousemove listener is registered on the window
    phase,           \* "rendered", "mounted" (effects ran) or "unmounted"
    staleCalls       \* doShow was called after the component was unmounted

roomVars == <<hostStream, clientStreams, users, selectedStream, isMuted,
              volumes, pending, controlOps>>

timerVars == <<showControl, open, hoverControl, timeoutHandle, timers,
               nextHandle, listening, phase, staleCalls>>

vars == <<roomVars, last, timerVars>>

----------------------------------------------------------------------------
(* Bounds of the model *)

MaxClients == 3
MaxControlOps == 2
MaxTimers == 5

(* Identities.  A remote stream id is a string; the host stream is named by *)
(* a symbol, which is equal to no string.                                   *)
Undefined == "<undefined>"
HostStream == "<symbol mystream>"
HostStreamText == "Symbol(mystream)"
ClientIds == {"a", "b", HostStreamText}
Keys == ClientIds \cup {HostStream}

DefaultVolume == 100
MaxVolume == 100
MinVolume == 0
SliderValues == {MinVolume, MaxVolume}

Me == [id |-> "me", you |-> TRUE]
Guest == [id |-> "guest", you |-> FALSE]
UserLists == {<<Guest>>, <<Guest, Me>>}

----------------------------------------------------------------------------
(* Helpers: the JavaScript operations the component uses *)

\* selectedStream.toString(): the description of a symbol, a string itself
ToString(s) == IF s = HostStream THEN HostStreamText ELSE s

\* state.clientStreams.findIndex(({id}) => id === s): 0-based, -1 if absent
FindIndex(clients, s) ==
    IF \E i \in 1..Len(clients) : clients[i] = s
    THEN (CHOOSE i \in 1..Len(clients) :
              clients[i] = s /\ \A j \in 1..(i - 1) : clients[j] # s) - 1
    ELSE -1

\* state.clientStreams.some(({id}) => id === s)
SomeClient(clients, s) == \E i \in 1..Len(clients) : clients[i] = s

\* state.users.find(({you}) => you === true)?.you
YouFlag(us) == \E i \in 1..Len(us) : us[i].you

\* state.users.find(({you}) => you === true)?.id
YouId(us) ==
    IF YouFlag(us)
    THEN us[CHOOSE i \in 1..Len(us) :
                us[i].you /\ \A j \in 1..(i - 1) : ~us[j].you].id
    ELSE Undefined

\* obj[key] || false
GetMuted(m, k) == k \in DOMAIN m /\ m[k]

\* obj[key] ?? 100
GetVolume(v, k) == IF k \in DOMAIN v THEN v[k] ELSE DefaultVolume

\* {...obj, [key]: value}
Put(m, k, val) == [x \in (DOMAIN m) \cup {k} |-> IF x = k THEN val ELSE m[x]]

Min(a, b) == IF a < b THEN a ELSE b
Max(a, b) == IF a > b THEN a ELSE b

Event(op) ==
    [op |-> op, sel |-> selectedStream, threw |-> FALSE,
     shown |-> showControl]

Settled == pending = {}

----------------------------------------------------------------------------
(* Effects *)

\* FocusEffect with the first condition not asking for state.hostStream
FocusEffect_NoHostCheck(sel, host, clients) ==
    IF sel = HostStream THEN sel
    ELSE IF SomeClient(clients, sel) THEN sel
    ELSE IF Len(clients) = 0 THEN Undefined
    ELSE clients[1]

\* FocusEffect without its first condition
FocusEffect_NoHostRule(sel, host, clients) ==
    IF SomeClient(clients, sel) THEN sel
    ELSE IF Len(clients) = 0 THEN Undefined
    ELSE clients[1]

\* FocusEffect without its second condition
FocusEffect_AlwaysFirst(sel, host, clients) ==
    IF sel = HostStream /\ host THEN sel
    ELSE IF Len(clients) = 0 THEN Undefined
    ELSE clients[1]

\* FocusEffect falling back to the host stream when there is no client stream
FocusEffect_HostFallback(sel, host, clients) ==
    IF sel = HostStream /\ host THEN sel
    ELSE IF SomeClient(clients, sel) THEN sel
    ELSE IF Len(clients) = 0 THEN (IF host THEN HostStream ELSE Undefined)
    ELSE clients[1]

\* FocusEffect taking the last client stream instead of the first
FocusEffect_LastClient(sel, host, clients) ==
    IF sel = HostStream /\ host THEN sel
    ELSE IF SomeClient(clients, sel) THEN sel
    ELSE IF Len(clients) = 0 THEN Undefined
    ELSE clients[Len(clients)]

\* FocusEffect whose third condition does not ask for an empty client list
FocusEffect_ResetFirst(sel, host, clients) ==
    IF sel = HostStream /\ host THEN sel
    ELSE IF SomeClient(clients, sel) THEN sel
    ELSE IF sel # Undefined THEN Undefined
    ELSE IF Len(clients) = 0 THEN Undefined
    ELSE clients[1]

\* the focus effect: what selectedStream is after it ran
FocusEffect(sel, host, clients) ==
    IF sel = HostStream /\ host THEN sel
    ELSE IF SomeClient(clients, sel) THEN sel
    ELSE IF Len(clients) = 0 /\ sel # Undefined THEN Undefined
    ELSE IF Len(clients) = 0 THEN Undefined
    ELSE clients[1]

\* HostStreamEffect writing nothing
HostStreamEffect_Skip(m, host) == m

\* the host-stream effect: what isMuted is after it ran
HostStreamEffect(m, host) ==
    IF host THEN Put(m, ToString(HostStream), TRUE) ELSE m

\* the stream shown in the large view is defined
StreamShown ==
    IF selectedStream = HostStream THEN hostStream
    ELSE SomeClient(clientStreams, selectedStream)

\* the muted property of the video element
VideoMuted == GetMuted(isMuted, selectedStream)

\* the volume property of the video element, in percent
VideoVolume == GetVolume(volumes, selectedStream)

\* one pass of the effects after a commit
RunEffects ==
    /\ pending # {}
    /\ selectedStream' =
           IF "focus" \in pending
           THEN FocusEffect(selectedStream, hostStream, clientStreams)
           ELSE selectedStream
    /\ isMuted' =
           IF "host" \in pending
           THEN HostStreamEffect(isMuted, hostStream)
           ELSE isMuted
    /\ pending' = IF selectedStream' # selectedStream THEN {"focus"} ELSE {}
    /\ UNCHANGED <<hostStream, clientStreams, users, volumes, controlOps, last>>
    /\ UNCHANGED timerVars

----------------------------------------------------------------------------
(* The roster: the props the component is rendered with *)

HostStart ==
    /\ Settled
    /\ ~hostStream
    /\ hostStream' = TRUE
    /\ pending' = {"focus", "host"}
    /\ last' = Event("HostStart")
    /\ UNCHANGED <<clientStreams, users, selectedStream, isMuted, volumes,
                   controlOps>>
    /\ UNCHANGED timerVars

HostStop ==
    /\ Settled
    /\ hostStream
    /\ hostStream' = FALSE
    /\ pending' = {"focus", "host"}
    /\ last' = Event("HostStop")
    /\ UNCHANGED <<clientStreams, users, selectedStream, isMuted, volumes,
                   controlOps>>
    /\ UNCHANGED timerVars

InsertAt(s, i, e) == SubSeq(s, 1, i - 1) \o <<e>> \o SubSeq(s, i, Len(s))
RemoveAt(s, i) == SubSeq(s, 1, i - 1) \o SubSeq(s, i + 1, Len(s))

ClientJoin ==
    /\ Settled
    /\ Len(clientStreams) < MaxClients
    /\ \E id \in ClientIds, i \in 1..(Len(clientStreams) + 1) :
           /\ ~SomeClient(clientStreams, id)
           /\ clientStreams' = InsertAt(clientStreams, i, id)
    /\ pending' = {"focus"}
    /\ last' = Event("ClientJoin")
    /\ UNCHANGED <<hostStream, users, selectedStream, isMuted, volumes,
                   controlOps>>
    /\ UNCHANGED timerVars

ClientLeave ==
    /\ Settled
    /\ \E i \in 1..Len(clientStreams) :
           clientStreams' = RemoveAt(clientStreams, i)
    /\ pending' = {"focus"}
    /\ last' = Event("ClientLeave")
    /\ UNCHANGED <<hostStream, users, selectedStream, isMuted, volumes,
                   controlOps>>
    /\ UNCHANGED timerVars

UsersChange ==
    /\ Settled
    /\ \E us \in UserLists : us # users /\ users' = us
    /\ last' = Event("UsersChange")
    /\ UNCHANGED <<hostStream, clientStreams, selectedStream, isMuted, volumes,
                   pending, controlOps>>
    /\ UNCHANGED timerVars

----------------------------------------------------------------------------
(* Keyboard navigation *)

\* setSelectedStream(id) from a handler: the focus effect runs if it changed
SetSelectedStream(id) ==
    /\ selectedStream' = id
    /\ pending' = IF id # selectedStream THEN {"focus"} ELSE {}

\* state.clientStreams[i].id for a 0-based i: an element outside the array is
\* undefined and reading its id raises a TypeError
InArray(clients, i) == 0 <= i /\ i < Len(clients)

\* NextIndex without the wrap from the last element to the first
NextIndex_NoWrap(clients, sel) == FindIndex(clients, sel) + 1

NextIndex(clients, sel) ==
    IF FindIndex(clients, sel) = Len(clients) - 1
    THEN 0
    ELSE FindIndex(clients, sel) + 1

PreviousIndex(clients, sel) ==
    IF FindIndex(clients, sel) = 0
    THEN Len(clients) - 1
    ELSE FindIndex(clients, sel) - 1

CycleTo(op, i) ==
    IF Len(clientStreams) > 0
    THEN IF InArray(clientStreams, i)
         THEN /\ SetSelectedStream(clientStreams[i + 1])
              /\ last' = Event(op)
         ELSE /\ last' = [Event(op) EXCEPT !.threw = TRUE]
              /\ UNCHANGED <<selectedStream, pending>>
    ELSE /\ last' = Event(op)
         /\ UNCHANGED <<selectedStream, pending>>

\* hotkey 'h' / ArrowLeft
CycleNext ==
    /\ Settled
    /\ CycleTo("CycleNext", NextIndex(clientStreams, selectedStream))
    /\ UNCHANGED <<hostStream, clientStreams, users, isMuted, volumes,
                   controlOps>>
    /\ UNCHANGED timerVars

\* hotkey 'l' / ArrowRight
CyclePrevious ==
    /\ Settled
    /\ CycleTo("CyclePrevious", PreviousIndex(clientStreams, selectedStream))
    /\ UNCHANGED <<hostStream, clientStreams, users, isMuted, volumes,
                   controlOps>>
    /\ UNCHANGED timerVars

----------------------------------------------------------------------------
(* Mute and volume *)

\* HotkeyAllowed without the exclusion of the host stream
HotkeyAllowed_NoSelfCheck(sel, us) == sel # Undefined

\* HotkeyAllowed without the test that a stream is selected
HotkeyAllowed_NoFocusCheck(sel, us) ==
    ~(YouFlag(us) /\ ToString(sel) = HostStreamText)

\* the condition of the hotkeys 'm', ArrowUp and ArrowDown
HotkeyAllowed(sel, us) ==
    /\ sel # Undefined
    /\ ~(YouFlag(us) /\ ToString(sel) = HostStreamText)

\* the condition of the Sound button's onClick and of handleVolumeChange
ControlAllowed(sel, us) ==
    /\ sel # Undefined
    /\ ~(YouId(us) = ToString(sel))

\* the disabled property of the Sound button and of the Slider
ControlDisabled(sel, us) ==
    ToString(sel) = HostStreamText /\ YouFlag(us)

ToggledMute(m, sel) == Put(m, sel, ~GetMuted(m, sel))
VolumeStepUp(v, sel) == Put(v, sel, Min(GetVolume(v, sel) + 1, MaxVolume))
\* VolumeStepDown without Math.max
VolumeStepDown_NoClamp(v, sel) == Put(v, sel, GetVolume(v, sel) - 1)

VolumeStepDown(v, sel) == Put(v, sel, Max(GetVolume(v, sel) - 1, MinVolume))

Budget == controlOps < MaxControlOps

\* hotkey 'm'
ToggleMuteHotkey ==
    /\ Settled
    /\ IF HotkeyAllowed(selectedStream, users)
       THEN /\ Budget
            /\ isMuted' = ToggledMute(isMuted, selectedStream)
            /\ controlOps' = controlOps + 1
       ELSE UNCHANGED <<isMuted, controlOps>>
    /\ last' = Event("ToggleMuteHotkey")
    /\ UNCHANGED <<hostStream, clientStreams, users, selectedStream, volumes,
                   pending>>
    /\ UNCHANGED timerVars

\* hotkey ArrowUp
VolumeUpHotkey ==
    /\ Settled
    /\ IF HotkeyAllowed(selectedStream, users)
       THEN /\ Budget
            /\ volumes' = VolumeStepUp(volumes, selectedStream)
            /\ controlOps' = controlOps + 1
       ELSE UNCHANGED <<volumes, controlOps>>
    /\ last' = Event("VolumeUpHotkey")
    /\ UNCHANGED <<hostStream, clientStreams, users, selectedStream, isMuted,
                   pending>>
    /\ UNCHANGED timerVars

\* hotkey ArrowDown
VolumeDownHotkey ==
    /\ Settled
    /\ IF HotkeyAllowed(selectedStream, users)
       THEN /\ Budget
            /\ volumes' = VolumeStepDown(volumes, selectedStream)
            /\ controlOps' = controlOps + 1
       ELSE UNCHANGED <<volumes, controlOps>>
    /\ last' = Event("VolumeDownHotkey")
    /\ UNCHANGED <<hostStream, clientStreams, users, selectedStream, isMuted,
                   pending>>
    /\ UNCHANGED timerVars

\* the onClick of the Sound button
SoundOnClick(op) ==
    /\ IF ControlAllowed(selectedStream, users)
       THEN /\ Budget
            /\ isMuted' = ToggledMute(isMuted, selectedStream)
            /\ controlOps' = controlOps + 1
       ELSE UNCHANGED <<isMuted, controlOps>>
    /\ last' = Event(op)
    /\ UNCHANGED <<hostStream, clientStreams, users, selectedStream, volumes,
                   pending>>
    /\ UNCHANGED timerVars

\* handleVolumeChange(_event, newValue)
handleVolumeChange(op, newValue) ==
    /\ IF ControlAllowed(selectedStream, users)
       THEN /\ Budget
            /\ volumes' = Put(volumes, selectedStream, newValue)
            /\ controlOps' = controlOps + 1
       ELSE UNCHANGED <<volumes, controlOps>>
    /\ last' = Event(op)
    /\ UNCHANGED <<hostStream, clientStreams, users, selectedStream, isMuted,
                   pending>>
    /\ UNCHANGED timerVars

\* a click on the Sound button: a disabled button dispatches no click
SoundClick ==
    /\ Settled
    /\ ~ControlDisabled(selectedStream, users)
    /\ SoundOnClick("SoundClick")

\* a change of the Slider: a disabled slider reports no change
SliderChange ==
    /\ Settled
    /\ ~ControlDisabled(selectedStream, users)
    /\ \E v \in SliderValues : handleVolumeChange("SliderChange", v)

----------------------------------------------------------------------------
(* Selection by a click on a thumbnail *)

\* the thumbnails of the bottom container
Thumbnails ==
    {clientStreams[i] : i \in {j \in 1..Len(clientStreams) :
                                   clientStreams[j] # selectedStream}}
    \cup (IF hostStream THEN {HostStream} ELSE {})

\* the condition under which handleStreamSelection mutes the stream left
\* LeavingHost with the condition of handleVolumeChange
LeavingHost_ById(sel, us) == YouId(us) = ToString(sel)

LeavingHost(sel, us) == YouFlag(us) /\ ToString(sel) = HostStreamText

handleStreamSelection(streamId) ==
    /\ isMuted' = IF LeavingHost(selectedStream, users)
                  THEN Put(isMuted, selectedStream, TRUE)
                  ELSE isMuted
    /\ SetSelectedStream(streamId)

SelectStream ==
    /\ Settled
    /\ \E streamId \in Thumbnails : handleStreamSelection(streamId)
    /\ last' = Event("SelectStream")
    /\ UNCHANGED <<hostStream, clientStreams, users, volumes, controlOps>>
    /\ UNCHANGED timerVars

----------------------------------------------------------------------------
(* Specification *)

Init ==
    /\ hostStream = FALSE
    /\ clientStreams = <<>>
    /\ users = <<Guest, Me>>
    /\ selectedStream = Undefined
    /\ isMuted = <<>>
    /\ volumes = <<>>
    /\ pending = {"focus", "host"}
    /\ controlOps = 0
    /\ last = [op |-> "mount", sel |-> Undefined, threw |-> FALSE,
               shown |-> TRUE]
    /\ showControl = TRUE
    /\ open = FALSE
    /\ hoverControl = FALSE
    /\ timeoutHandle = 0
    /\ timers = {}
    /\ nextHandle = 1
    /\ listening = FALSE
    /\ phase = "rendered"
    /\ staleCalls = FALSE

Next ==
    \/ RunEffects
    \/ HostStart
    \/ HostStop
    \/ ClientJoin
    \/ ClientLeave
    \/ UsersChange
    \/ CycleNext
    \/ CyclePrevious
    \/ ToggleMuteHotkey
    \/ VolumeUpHotkey
    \/ VolumeDownHotkey
    \/ SoundClick
    \/ SliderChange
    \/ SelectStream

Spec == Init /\ [][Next]_vars

\* The handlers of the Sound button and of the Slider called as functions,
\* whatever the disabled property of the control is
SoundOnClickCall ==
    /\ Settled
    /\ SoundOnClick("SoundOnClickCall")

handleVolumeChangeCall ==
    /\ Settled
    /\ \E v \in SliderValues : handleVolumeChange("handleVolumeChangeCall", v)

NextHandlers ==
    \/ Next
    \/ SoundOnClickCall
    \/ handleVolumeChangeCall

SpecHandlers == Init /\ [][NextHandlers]_vars

----------------------------------------------------------------------------
(* The visibility of the controls: useShowOnMouseMovement, hover, dialog.   *)
(* This part shares no state with the focus and the control store, and is  *)
(* explored by a specification of its own.                                 *)

\* controlVisible without hoverControl
controlVisible_NoHover == showControl \/ open

\* const controlVisible
controlVisible == showControl \/ open \/ hoverControl

\* Rearm without clearTimeout
Rearm_NoClear(ts, handle, fresh) == ts \cup {fresh}

\* clearTimeout(handle) followed by window.setTimeout(..) returning fresh
Rearm(ts, handle, fresh) == (ts \ {handle}) \cup {fresh}

\* the two effects of useShowOnMouseMovement, run after the first render
MountEffects ==
    /\ phase = "rendered"
    /\ phase' = "mounted"
    /\ listening' = TRUE
    /\ timeoutHandle' = nextHandle
    /\ timers' = timers \cup {nextHandle}
    /\ nextHandle' = nextHandle + 1
    /\ last' = Event("MountEffects")
    /\ UNCHANGED <<showControl, open, hoverControl, staleCalls, roomVars>>

\* update, the mousemove listener
MouseMove ==
    /\ listening
    /\ nextHandle <= MaxTimers
    /\ showControl' = IF timeoutHandle = 0 THEN TRUE ELSE showControl
    /\ timers' = Rearm(timers, timeoutHandle, nextHandle)
    /\ timeoutHandle' = nextHandle
    /\ nextHandle' = nextHandle + 1
    /\ last' = Event("MouseMove")
    /\ UNCHANGED <<open, hoverControl, listening, phase, staleCalls, roomVars>>

\* the callback of a pending timeout runs
TimeoutFires ==
    /\ \E h \in timers : timers' = timers \ {h}
    /\ timeoutHandle' = 0
    /\ IF phase = "unmounted"
       THEN staleCalls' = TRUE /\ UNCHANGED showControl
       ELSE showControl' = FALSE /\ UNCHANGED staleCalls
    /\ last' = Event("TimeoutFires")
    /\ UNCHANGED <<open, hoverControl, nextHandle, listening, phase, roomVars>>

\* setHoverState.onMouseEnter of a control surface, which is rendered only
\* while controlVisible
MouseEnter ==
    /\ phase = "mounted"
    /\ controlVisible
    /\ ~hoverControl
    /\ hoverControl' = TRUE
    /\ last' = Event("MouseEnter")
    /\ UNCHANGED <<showControl, open, timeoutHandle, timers, nextHandle,
                   listening, phase, staleCalls, roomVars>>

\* setHoverState.onMouseLeave
MouseLeave ==
    /\ phase = "mounted"
    /\ hoverControl
    /\ hoverControl' = FALSE
    /\ last' = Event("MouseLeave")
    /\ UNCHANGED <<showControl, open, timeoutHandle, timers, nextHandle,
                   listening, phase, staleCalls, roomVars>>

\* hotkey ctrl+s and the Settings button
OpenSettings ==
    /\ phase = "mounted"
    /\ ~open
    /\ open' = TRUE
    /\ last' = Event("OpenSettings")
    /\ UNCHANGED <<showControl, hoverControl, timeoutHandle, timers,
                   nextHandle, listening, phase, staleCalls, roomVars>>

\* the settings dialog closes itself through its setOpen property
CloseSettings ==
    /\ phase = "mounted"
    /\ open
    /\ open' = FALSE
    /\ last' = Event("CloseSettings")
    /\ UNCHANGED <<showControl, hoverControl, timeoutHandle, timers,
                   nextHandle, listening, phase, staleCalls, roomVars>>

\* the component is unmounted: the cleanup of the listener effect runs
Unmount ==
    /\ phase = "mounted"
    /\ phase' = "unmounted"
    /\ listening' = FALSE
    /\ last' = Event("Unmount")
    /\ UNCHANGED <<showControl, open, hoverControl, timeoutHandle, timers,
                   nextHandle, staleCalls, roomVars>>

NextTimer ==
    \/ MountEffects
    \/ MouseMove
    \/ TimeoutFires
    \/ MouseEnter
    \/ MouseLeave
    \/ OpenSettings
    \/ CloseSettings
    \/ Unmount

\* React runs the effects of a committed render and the window runs the
\* callback of a timeout that stays pending
SpecTimer ==
    /\ Init
    /\ [][NextTimer]_vars
    /\ WF_vars(MountEffects)
    /\ WF_vars(TimeoutFires)

----------------------------------------------------------------------------
(* Properties *)

RosterOps == {"HostStart", "HostStop", "ClientJoin", "ClientLeave"}

\* the focus names a stream of the roster
FocusInRoster ==
    \/ selectedStream = HostStream /\ hostStream
    \/ SomeClient(clientStreams, selectedStream)

\* C1, as stated: once the focus recomputation has settled the focus is the
\* host stream with the host stream present, or a client stream of the list,
\* or none; and it is none only when there is neither a host stream nor a
\* client stream.
C1_FocusNoneOnlyIfRosterEmpty ==
    Settled =>
        /\ FocusInRoster \/ selectedStream = Undefined
        /\ selectedStream = Undefined =>
               (~hostStream /\ clientStreams = <<>>)

\* C1, amended: once the focus recomputation has settled the focus is the
\* host stream with the host stream present, or a client stream of the list,
\* or none; and it is none only when the client list is empty (a host stream
\* may be present).
C1_FocusNoneOnlyIfNoClients ==
    Settled =>
        /\ FocusInRoster \/ selectedStream = Undefined
        /\ selectedStream = Undefined => clientStreams = <<>>

\* C1, witness: the host stream started on an empty roster, the effects have
\* run and the focus is none.
C1_Witness ==
    /\ Settled
    /\ last.op = "HostStart"
    /\ hostStream
    /\ clientStreams = <<>>
    /\ selectedStream = Undefined

C3_HostStreamPlaysMuted ==
    (Settled /\ selectedStream = HostStream /\ hostStream) => VideoMuted

\* C4: with the host stream as the focus and the local user in the user list,
\* the hotkeys 'm', ArrowUp and ArrowDown change neither isMuted nor volumes.
C4_HotkeysLeaveHostStream ==
    [][(/\ selectedStream = HostStream
        /\ YouFlag(users)
        /\ (ToggleMuteHotkey \/ VolumeUpHotkey \/ VolumeDownHotkey))
           => (isMuted' = isMuted /\ volumes' = volumes)]_vars

\* C4, witness: a hotkey was pressed with the host stream as the focus and
\* the local user in the user list.
C4_Witness ==
    /\ last.op \in {"ToggleMuteHotkey", "VolumeUpHotkey", "VolumeDownHotkey"}
    /\ last.sel = HostStream
    /\ selectedStream = HostStream
    /\ YouFlag(users)

\* C5: with the host stream as the focus and the local user in the user
\* list, the onClick of the Sound button and handleVolumeChange, called as
\* functions, change neither the mute flag nor the volume of the host stream.
C5_HandlersRejectHostStream ==
    [][(/\ selectedStream = HostStream
        /\ YouFlag(users)
        /\ (SoundOnClickCall \/ handleVolumeChangeCall))
           => (/\ GetMuted(isMuted', HostStream) = GetMuted(isMuted, HostStream)
               /\ GetVolume(volumes', HostStream) = GetVolume(volumes, HostStream)
               /\ GetMuted(isMuted', HostStreamText)
                      = GetMuted(isMuted, HostStreamText)
               /\ GetVolume(volumes', HostStreamText)
                      = GetVolume(volumes, HostStreamText))]_vars

\* C6: the hotkey of cycle-previous, with a client list that is not empty and
\* a focus that is no client stream, moves the focus to the last client
\* stream of the list and raises no exception.
C6_CyclePreviousFromNoClient ==
    [][(/\ CyclePrevious
        /\ Len(clientStreams) > 0
        /\ ~SomeClient(clientStreams, selectedStream))
           => (/\ selectedStream' = clientStreams[Len(clientStreams)]
               /\ ~last'.threw)]_vars

\* C7: with the focus at index i of a client list of length n >= 1,
\* cycle-next moves it to index (i+1) mod n and cycle-previous to index
\* (i-1+n) mod n; with an empty client list both leave the focus alone;
\* neither moves the focus to the host stream.  (Only a step of one of the
\* two hotkeys, taken in a settled state, leaves its name in last.op.)
C7_CycleWithinClients ==
    [][(Settled /\ last'.op \in {"CycleNext", "CyclePrevious"}) =>
       LET n == Len(clientStreams)
           i == FindIndex(clientStreams, selectedStream)
       IN  /\ (CycleNext /\ i >= 0)
                  => selectedStream' = clientStreams[((i + 1) % n) + 1]
           /\ (CyclePrevious /\ i >= 0)
                  => selectedStream' = clientStreams[((i - 1 + n) % n) + 1]
           /\ ((CycleNext \/ CyclePrevious) /\ n = 0)
                  => selectedStream' = selectedStream
           /\ ((CycleNext \/ CyclePrevious)
                   /\ selectedStream' # selectedStream)
                  => selectedStream' # HostStream]_vars

\* C7, witness: cycle-next was pressed with the focus on the last of three
\* client streams and the focus is now the first.
C7_Witness ==
    /\ last.op = "CycleNext"
    /\ Len(clientStreams) = 3
    /\ last.sel = clientStreams[3]
    /\ selectedStream = clientStreams[1]

\* C8: the focus effect, run with the host stream as the focus and the host
\* stream present, leaves the focus on the host stream whatever the client
\* list is.
C8_HostFocusKept ==
    [][(/\ RunEffects
        /\ "focus" \in pending
        /\ selectedStream = HostStream
        /\ hostStream)
           => selectedStream' = HostStream]_vars

\* C8, witness: a client stream joined while the host stream was the focus,
\* the effects have run and the host stream is still the focus.
C8_Witness ==
    /\ Settled
    /\ last.op = "ClientJoin"
    /\ last.sel = HostStream
    /\ hostStream
    /\ Len(clientStreams) = 2
    /\ selectedStream = HostStream

\* C9: after a change of the roster that keeps the client stream that was
\* the focus, that client stream is still the focus, before and after the
\* effects ran.
C9_ClientFocusKept ==
    (/\ last.op \in RosterOps
     /\ SomeClient(clientStreams, last.sel))
        => selectedStream = last.sel

\* C9, witness: client stream "b" was the focus and the only client stream,
\* "a" joined in front of it, the effects have run and the focus is "b".
C9_Witness ==
    /\ Settled
    /\ last.op = "ClientJoin"
    /\ last.sel = "b"
    /\ clientStreams = <<"a", "b">>
    /\ selectedStream = "b"

\* C10: the focus effect, run with an empty client list and not with the
\* host stream as the focus and present, sets the focus to none, also when a
\* host stream is present.
C10_NoClientsNoFocus ==
    [][(/\ RunEffects
        /\ "focus" \in pending
        /\ Len(clientStreams) = 0
        /\ ~(selectedStream = HostStream /\ hostStream))
           => selectedStream' = Undefined]_vars

\* C10, witness: the last client stream, which was the focus, left while the
\* host stream was present; the effects have run and the focus is none.
C10_Witness ==
    /\ Settled
    /\ last.op = "ClientLeave"
    /\ last.sel \in ClientIds
    /\ hostStream
    /\ clientStreams = <<>>
    /\ selectedStream = Undefined

\* C11: every stored volume is an integer of 0..100 and so is the volume
\* applied to the video element, which is 100 for a key without an entry;
\* ArrowDown at volume 0 leaves 0 and ArrowUp at volume 100 leaves 100.
C11_VolumeInRange ==
    /\ [](/\ \A k \in DOMAIN volumes : volumes[k] \in MinVolume..MaxVolume
          /\ VideoVolume \in MinVolume..MaxVolume
          /\ selectedStream \notin DOMAIN volumes => VideoVolume = 100)
    /\ [][(Settled /\ last'.op = "VolumeDownHotkey" /\ VolumeDownHotkey
               /\ VideoVolume = 0)
              => GetVolume(volumes', selectedStream) = 0]_vars
    /\ [][(Settled /\ last'.op = "VolumeUpHotkey" /\ VolumeUpHotkey
               /\ VideoVolume = 100)
              => GetVolume(volumes', selectedStream) = 100]_vars

\* C11, witness: the slider set the volume of client stream "a" to 0 and
\* ArrowDown was pressed then; the volume is 0.
C11_Witness ==
    /\ last.op = "VolumeDownHotkey"
    /\ selectedStream = "a"
    /\ controlOps = 2
    /\ "a" \in DOMAIN volumes
    /\ volumes["a"] = 0

\* C12: after handleStreamSelection moved the focus from the host stream to
\* a client stream, with the local user in the user list, the mute flag that
\* is read when the host stream is the focus is true.
C12_HostMutedAfterSwitch ==
    (/\ last.op = "SelectStream"
     /\ last.sel = HostStream
     /\ YouFlag(users)
     /\ selectedStream # HostStream)
        => GetMuted(isMuted, HostStream)

\* C12, witness: the host stream was the focus, the local user is in the
\* user list, client stream "a" was selected and is the focus.
C12_Witness ==
    /\ Settled
    /\ last.op = "SelectStream"
    /\ last.sel = HostStream
    /\ YouFlag(users)
    /\ selectedStream = "a"
    /\ GetMuted(isMuted, HostStream)

\* C15: every step that moves the focus away from the host stream, whatever
\* causes it, leaves the mute flag of the host stream true.
C15_HostMutedWhenFocusLeaves ==
    [][(/\ selectedStream = HostStream
        /\ selectedStream' # HostStream
        /\ YouFlag(users))
           => GetMuted(isMuted', HostStream)]_vars

\* C16: after the host stream appeared, the mute flag that is read for
\* playback when the host stream is the focus, and that
\* handleStreamSelection writes, is true.
C16_HostStartMutesPlaybackFlag ==
    (Settled /\ last.op = "HostStart") => GetMuted(isMuted, HostStream)

\* C17: the focus effect, run with a focus that is neither the host stream
\* with the host stream present nor a client stream of the list, and with a
\* client list that is not empty, sets the focus to the first client stream.
C17_FirstClientTaken ==
    [][(/\ RunEffects
        /\ "focus" \in pending
        /\ ~(selectedStream = HostStream /\ hostStream)
        /\ ~SomeClient(clientStreams, selectedStream)
        /\ Len(clientStreams) > 0)
           => selectedStream' = clientStreams[1]]_vars

\* C17, witness: client stream "b", the focus, left a list that keeps two
\* client streams; the effects have run and the focus is the first of them.
C17_Witness ==
    /\ Settled
    /\ last.op = "ClientLeave"
    /\ last.sel = "b"
    /\ Len(clientStreams) = 2
    /\ ~SomeClient(clientStreams, "b")
    /\ selectedStream = clientStreams[1]

\* C18: the focus effect is idempotent: run again on the roster it ran on,
\* with its own result as the focus, it returns that result.
C18_FocusEffectIdempotent ==
    [][(RunEffects /\ "focus" \in pending)
           => FocusEffect(selectedStream', hostStream', clientStreams')
                  = selectedStream']_vars

\* C18, witness: the focus effect has replaced the focus (client stream "b"
\* left, "a" is the focus) and has run once more without changing it.
C18_Witness ==
    /\ Settled
    /\ last.op = "ClientLeave"
    /\ last.sel = "b"
    /\ selectedStream = "a"
    /\ clientStreams = <<"a">>

UserFocusOps == {"SelectStream", "CycleNext", "CyclePrevious"}

\* C19: the effects that run after handleStreamSelection or a cycle hotkey
\* set the focus leave the focus as it was set.
C19_UserFocusKept ==
    [][(RunEffects /\ last.op \in UserFocusOps /\ ~last.threw)
           => selectedStream' = selectedStream]_vars

\* C19, witness: client stream "b", which is not the first of the list, was
\* selected by a click, the effects have run and "b" is the focus.
C19_Witness ==
    /\ Settled
    /\ last.op = "SelectStream"
    /\ last.sel # "b"
    /\ Len(clientStreams) >= 2
    /\ clientStreams[1] # "b"
    /\ selectedStream = "b"

\* C13: the controls are visible whenever the pointer is over a control
\* surface or the settings dialog is open, whatever the timer output is, and
\* are visible exactly when the timer output is true when neither holds.
C13_HoverAndDialogOverride ==
    /\ (hoverControl \/ open) => controlVisible
    /\ (~hoverControl /\ ~open) => (controlVisible = showControl)

\* C13, witness: the pointer is over a control surface, the countdown has
\* elapsed (the timer output is false) and the controls are visible.
C13_Witness ==
    /\ phase = "mounted"
    /\ hoverControl
    /\ ~open
    /\ ~showControl
    /\ controlVisible

\* C14: a pointer-move cancels the pending countdown and arms a fresh one,
\* so that at most one countdown is pending; the timer output becomes false
\* only by the countdown armed last elapsing, and does so eventually once
\* pointer-moves have stopped; a pointer-move with the timer output false
\* sets it to true in the same step.
C14_TimerRearmedByPointerMove ==
    /\ [](Cardinality(timers) <= 1)
    /\ [][(listening /\ last'.op = "MouseMove")
              => (/\ timeoutHandle' \notin timers
                  /\ timers' = {timeoutHandle'}
                  /\ ~showControl => showControl')]_vars
    /\ [][(showControl /\ ~showControl')
              => (/\ last'.op = "TimeoutFires"
                  /\ timers = {timeoutHandle}
                  /\ timers' = {})]_vars
    /\ (<>[][last'.op # "MouseMove"]_vars)
           => <>[](phase = "mounted" => ~showControl)

\* C14, witness: the countdown elapsed, the timer output was false, and a
\* pointer-move has set it to true and armed the one pending countdown.
C14_Witness ==
    /\ phase = "mounted"
    /\ last.op = "MouseMove"
    /\ ~last.shown
    /\ showControl
    /\ timers = {timeoutHandle}
    /\ timeoutHandle = nextHandle - 1

\* C20: once the component is unmounted no countdown is pending, and no
\* countdown calls doShow after the component was unmounted.
C20_NoCountdownAfterUnmount ==
    /\ phase = "unmounted" => timers = {}
    /\ ~staleCalls

\* the entry of key k is the same in the objects m and n
SameEntry(m, n, k) ==
    /\ (k \in DOMAIN m) = (k \in DOMAIN n)
    /\ k \in DOMAIN m => m[k] = n[k]

\* C21: a change of the roster and the effects that follow it leave volumes
\* alone and leave alone the stored mute flag of every client identity that
\* is not in the roster; the one entry of isMuted they may write is the mute
\* flag of the host stream, which they set to true.
C21_RosterKeepsControlEntries ==
    [][((Settled /\ last'.op \in RosterOps)
            \/ (~Settled /\ last.op \in RosterOps))
           => (/\ volumes' = volumes
               /\ \A k \in ClientIds :
                      (k \in DOMAIN isMuted /\ ~SomeClient(clientStreams', k))
                          => SameEntry(isMuted, isMuted', k)
               /\ \A k \in Keys :
                      \/ SameEntry(isMuted, isMuted', k)
                      \/ k = HostStream /\ GetMuted(isMuted', k))]_vars

\* C22: the hotkeys 'm', ArrowUp, ArrowDown and the slider leave the focus
\* alone and leave alone the mute flag and the volume of every key but the
\* focus; with no focus they change nothing.
C22_ControlsWriteFocusOnly ==
    [][(Settled /\ last'.op \in {"ToggleMuteHotkey", "VolumeUpHotkey",
                                 "VolumeDownHotkey", "SliderChange"})
           => (/\ selectedStream' = selectedStream
               /\ \A k \in (DOMAIN isMuted') \cup (DOMAIN volumes') \cup Keys :
                      k # selectedStream
                          => (/\ SameEntry(isMuted, isMuted', k)
                              /\ SameEntry(volumes, volumes', k))
               /\ selectedStream = Undefined
                      => (isMuted' = isMuted /\ volumes' = volumes))]_vars

\* C22, witness: client stream "b" has a stored mute flag, client stream "a"
\* is the focus and the slider has set its volume to 0.
C22_Witness ==
    /\ last.op = "SliderChange"
    /\ selectedStream = "a"
    /\ "a" \in DOMAIN volumes
    /\ volumes["a"] = 0
    /\ "b" \in DOMAIN isMuted
    /\ isMuted["b"]
    /\ "b" \notin DOMAIN volumes

\* C23: for every client stream that is the focus, whatever its id, the
\* hotkey 'm' flips its mute flag and the hotkeys ArrowUp and ArrowDown step
\* its volume; the host-stream effect changes the mute flag of no client
\* stream of the roster.
C23_ClientNeverTakenForHost ==
    /\ [][(/\ Settled
           /\ last'.op = "ToggleMuteHotkey"
           /\ SomeClient(clientStreams, selectedStream))
              => GetMuted(isMuted', selectedStream)
                     # GetMuted(isMuted, selectedStream)]_vars
    /\ [][(/\ Settled
           /\ last'.op = "VolumeUpHotkey"
           /\ SomeClient(clientStreams, selectedStream))
              => GetVolume(volumes', selectedStream)
                     = Min(GetVolume(volumes, selectedStream) + 1, MaxVolume)
                 /\ selectedStream \in DOMAIN volumes']_vars
    /\ [][(/\ Settled
           /\ last'.op = "VolumeDownHotkey"
           /\ SomeClient(clientStreams, selectedStream))
              => GetVolume(volumes', selectedStream)
                     = Max(GetVolume(volumes, selectedStream) - 1, MinVolume)
                 /\ selectedStream \in DOMAIN volumes']_vars
    /\ [][~Settled
              => \A k \in ClientIds :
                     SomeClient(clientStreams, k)
                         => GetMuted(isMuted', k) = GetMuted(isMuted, k)]_vars

=============================================================================
